---- MODULE Spec2Model ----
(***************************************************************************)
(* The local embeddings controller (LocalEmbeddingsController) and the     *)
(* engine process it drives over a request/notification channel.           *)
(*                                                                         *)
(* One controller instance.  Controller methods are asynchronous: a call   *)
(* runs synchronously up to its first real suspension (an await on the     *)
(* pending engine handle, or on an engine reply) and is then kept in       *)
(* `calls` until the awaited thing arrives.  An await on an already        *)
(* settled promise resumes in a microtask, ahead of every engine message,  *)
(* so such a continuation is part of the same step.                        *)
(***************************************************************************)
EXTENDS Integers, Sequences, FiniteSets, Bags, TLC

\* ------------------------------------------------------------------ bounds

\* Suspended controller calls (including the reload started by "Done").
MaxCalls == 1
\* Spawn attempts counted (the counter saturates here).
MaxSpawns == 2

\* ------------------------------------------------------------- value sets

NoPath == "none"
Paths == {"p1", "p2"}
NoWorkspace == "(No workspace loaded)"

NoToken == "none"
NullToken == "null"
Tokens == {"t1", "t2"}

\* A server endpoint string: whether `new URL(..)` parses it, and its origin.
DotcomOrigin == "https://sourcegraph.com"
Endpoints ==
    { [parses |-> TRUE, origin |-> DotcomOrigin],
      [parses |-> TRUE, origin |-> "https://sourcegraph.example.com"],
      [parses |-> FALSE, origin |-> ""] }

\* Error messages are sequences of text fragments; a regular expression
\* without anchors matches when its text is one of the fragments.
NoRemoteText == "repository does not have a default fetch URL, so can't be named for an index"
NotGitText == "does not appear to be a git repository"
ErrorMessages ==
    { <<NoRemoteText>>,
      <<"fatal: '/w' ", NotGitText>>,
      <<"error: ", NoRemoteText>>,
      <<"index not found">> }

\* What the engine answers to a request: a result, or a failure with a message.
Ok(v) == [ok |-> TRUE, value |-> v, message |-> <<>>]
Err(m) == [ok |-> FALSE, value |-> "none", message |-> m]
LoadReplies == {Ok("true"), Ok("false")} \cup {Err(m) : m \in ErrorMessages}
AckReplies == {Ok("ack"), Err(<<"request failed">>)}
QueryReplies == {Ok("results"), Ok("empty"), Err(<<"request failed">>)}

\* ------------------------------------------------------------------ state

VARIABLES
    service,            \* this.service: the memoized spawn attempt
    serviceStarted,
    accessToken,
    endpointIsDotcom,
    statusBar,          \* the progress indicator: NoBar or Bar
    lastRepo,
    repoState,
    pathBeingIndexed,
    workspaceFolder,    \* vscode.workspace.workspaceFolders?.[0], fixed
    calls,              \* bag of suspended controller calls
    spawns,             \* number of engine spawns so far (saturating)
    engineJobs,         \* engine side: the paths it is indexing (a request for a
                        \* path it is already indexing joins that run)
    engineToken,        \* engine side: payload of the last embeddings/set-token sent
    step                \* what the last step gave out: result, events, requests, indicator text

ctl == <<service, serviceStarted, accessToken, endpointIsDotcom, statusBar,
         lastRepo, repoState, pathBeingIndexed>>

\* codeblock-action-tracker.ts, lines 15-17 (module state) and what it works with
VARIABLES
    lastStoredCode,     \* code, eventName and source of the last stored snippet
    insertInProgress,
    lastClipboardText,
    clipboard,          \* vscode.env.clipboard: what readText() resolves to
    changes,            \* bag of onTextDocumentChange calls awaiting readText()
    out                 \* what the last tracker call returned and logged

controller == <<service, serviceStarted, accessToken, endpointIsDotcom, statusBar,
                lastRepo, repoState, pathBeingIndexed, workspaceFolder, calls,
                spawns, engineJobs, engineToken, step>>
tracker == <<lastStoredCode, insertInProgress, lastClipboardText, clipboard, changes, out>>
vars == <<service, serviceStarted, accessToken, endpointIsDotcom, statusBar,
          lastRepo, repoState, pathBeingIndexed, workspaceFolder, calls,
          spawns, engineJobs, engineToken, step,
          lastStoredCode, insertInProgress, lastClipboardText, clipboard, changes, out>>

\* Event names, character by character
CopyButton == <<"c", "o", "p", "y", "B", "u", "t", "t", "o", "n">>
KeyDownCopy == <<"k", "e", "y", "D", "o", "w", "n", ":", "C", "o", "p", "y">>
InsertButton == <<"i", "n", "s", "e", "r", "t", "B", "u", "t", "t", "o", "n">>
SaveButton == <<"s", "a", "v", "e", "B", "u", "t", "t", "o", "n">>
NoEvent == <<>>

\* What a tracker call gave out: its return value and the telemetry event it logged
Out(name, ret, logged) == [name |-> name, ret |-> ret, logged |-> logged]
NoOut == Out("", "none", "none")

\* lines 15-17: the module as loaded, with an empty clipboard
TrackerInit ==
    /\ lastStoredCode = [code |-> "init", eventName |-> NoEvent, source |-> ""]
    /\ insertInProgress = FALSE
    /\ lastClipboardText = ""
    /\ clipboard = ""
    /\ changes = EmptyBag
    /\ out = NoOut

NoRepo == [path |-> NoPath, loadResult |-> FALSE]
NoState == [known |-> FALSE, indexable |-> FALSE, isGit |-> FALSE, hasIndex |-> FALSE]
RepoState(hasIndex, indexable, isGit) ==
    [known |-> TRUE, indexable |-> indexable, isGit |-> isGit, hasIndex |-> hasIndex]

\* this.statusBar is undefined, or refers to a status bar item of the host
NoBar == "undefined"
Bar == "item"

\* ---------------------------------------------------------- pure functions

\* A test that takes every well-formed URL for dotcom
isDotComParses(url) == url.parses

\* isDotCom(url)
isDotCom(url) == url.parses /\ url.origin = DotcomOrigin

Group(name, state) == [name |-> name, kind |-> "embeddings", type |-> "local", state |-> state]

\* A getter that tests loadResult before pathBeingIndexed
StatusOfReadyFirst(dotcom, last, indexing, states, folder) ==
    IF ~dotcom THEN <<>>
    ELSE LET path == IF last # NoRepo THEN last.path
                     ELSE IF folder # NoPath THEN folder ELSE NoWorkspace
         IN  IF last = NoRepo THEN <<Group(path, "indeterminate")>>
             ELSE IF last.loadResult THEN <<Group(path, "ready")>>
             ELSE IF indexing = path THEN <<Group(path, "indexing")>>
             ELSE IF ~(states[path].known /\ states[path].isGit) THEN <<>>
             ELSE <<Group(path, IF states[path].indexable THEN "unconsented" ELSE "no-match")>>

\* get status(), as a function of the fields it reads
StatusOf(dotcom, last, indexing, states, folder) ==
    IF ~dotcom THEN <<>>
    ELSE LET path == IF last # NoRepo THEN last.path
                     ELSE IF folder # NoPath THEN folder ELSE NoWorkspace
         IN  IF last = NoRepo THEN <<Group(path, "indeterminate")>>
             ELSE IF indexing = path THEN <<Group(path, "indexing")>>
             ELSE IF last.loadResult THEN <<Group(path, "ready")>>
             ELSE IF ~(states[path].known /\ states[path].isGit) THEN <<>>
             ELSE <<Group(path, IF states[path].indexable THEN "unconsented" ELSE "no-match")>>

status == StatusOf(endpointIsDotcom, lastRepo, pathBeingIndexed, repoState, workspaceFolder)

\* ------------------------------------------------------------ step record

\* What a step gives out, for whoever called or listens:
\*   name   - the method or handler that ran ("spawn": spawnAndBindService)
\*   arg    - the path or token it was given
\*   ret    - "none" while the call stays suspended; else what it returned
\*            ("void", "true", "false", a result set) or "throw" if it rejected
\*   events - the events fired, in order, each with the status a subscriber
\*            reads from inside its callback
\*   sent   - the requests sent to the engine, in order
\*   shown  - the text written to the indicator, NoText if none
\*   got    - the engine's reply, where request and reply are one step
Event(ev, seen) == [ev |-> ev, seen |-> seen]
Request(method, arg) == [method |-> method, arg |-> arg]
NoPercent == [kind |-> "none", value |-> 0]
Text(text, percent) == [text |-> text, percent |-> percent]
NoText == Text("", NoPercent)
NoReply == [ok |-> TRUE, value |-> "none", message |-> <<>>]
Step(name, arg, ret, events, sent, shown) ==
    [name |-> name, arg |-> arg, ret |-> ret, events |-> events, sent |-> sent,
     shown |-> shown, got |-> NoReply]
Replied(name, arg, ret, events, sent, reply) ==
    [name |-> name, arg |-> arg, ret |-> ret, events |-> events, sent |-> sent,
     shown |-> NoText, got |-> reply]

\* Nothing given out: the caller, the subscribers and the engine have taken
\* what the last step gave out.  Every step starts from here.
NoStep == Step("", "none", "none", <<>>, <<>>, NoText)
Taken == step = NoStep

\* A suspended call: the method, where it waits, and its argument.
\*   pc "service"     - awaiting getService() in the method itself
\*   pc "loadService" - awaiting getService() inside eagerlyLoad
\*   pc "reply"       - awaiting the engine's reply to its request
\* The replies to embeddings/query and embeddings/set-token touch no field of
\* the controller, so those requests and their replies are one step.
Call(op, pc, arg) == [op |-> op, pc |-> pc, arg |-> arg]

Add(bag, c) == bag (+) SetToBag({c})
Del(bag, c) == bag (-) SetToBag({c})

Min(a, b) == IF a < b THEN a ELSE b

\* ------------------------------------------------------- the engine handle

\* A handle that counts as ready as soon as cody-engine has been spawned
PendingSpawnOnly(svc) == svc = "spawning"

\* the promise in this.service has not settled: spawnBfg, embeddings/initialize
\* or the initial embeddings/set-token is awaited
Pending(svc) == svc \in {"spawning", "initializing", "settingToken"}
Settled(svc) == svc \in {"resolved", "rejected"}

\* A getService() that spawns whenever the handle is not there yet
GetServiceSpawnsUntilResolved(svc) == svc # "resolved"

\* getService(): `if (!this.service)` - whether this call starts a spawn
GetServiceSpawns(svc) == svc = "none"

\* getService(): the memoized promise after the call
GetService(svc) == IF GetServiceSpawns(svc) THEN "spawning" ELSE svc

\* spawns so far, after a getService() call on the handle svc
SpawnCount(svc, n) == IF GetServiceSpawns(svc) THEN Min(n + 1, MaxSpawns) ELSE n

SpawnError == <<"cody-engine did not start">>

\* A suspended call whose awaited handle is settled resumes before anything
\* else is processed.
Resumable == \E c \in BagToSet(calls) : c.pc \in {"service", "loadService"} /\ Settled(service)

\* ------------------------------------------------------------ eagerlyLoad

\* A classification that wants the whole message to be the "not a git
\* repository" text
LoadedStateWholeMessage(reply) ==
    IF reply.ok
    THEN RepoState(reply.value = "true", TRUE, TRUE)
    ELSE LET noRemote == reply.message = <<NoRemoteText>>
             notGit == reply.message = <<NotGitText>>
         IN  RepoState(FALSE, ~(notGit \/ noRemote), ~notGit)

\* A classification that takes a missing remote for a missing repository
LoadedStateNoRemoteNotGit(reply) ==
    IF reply.ok
    THEN RepoState(reply.value = "true", TRUE, TRUE)
    ELSE LET noRemote == reply.message = <<NoRemoteText>>
             notGit == \E i \in 1..Len(reply.message) : reply.message[i] = NotGitText
         IN  RepoState(FALSE, ~(notGit \/ noRemote), ~(notGit \/ noRemote))

\* A classification that records every failure as not indexable
LoadedStateNotIndexable(reply) ==
    IF reply.ok
    THEN RepoState(reply.value = "true", TRUE, TRUE)
    ELSE LET notGit == \E i \in 1..Len(reply.message) : reply.message[i] = NotGitText
         IN  RepoState(FALSE, FALSE, ~notGit)

\* A classification whose indexable looks at the remote only
LoadedStateRemoteOnly(reply) ==
    IF reply.ok
    THEN RepoState(reply.value = "true", TRUE, TRUE)
    ELSE LET noRemote == reply.message = <<NoRemoteText>>
             notGit == \E i \in 1..Len(reply.message) : reply.message[i] = NotGitText
         IN  RepoState(FALSE, ~noRemote, ~notGit)

\* eagerlyLoad, lines 581-610: the RepoState recorded for a reply
LoadedState(reply) ==
    IF reply.ok
    THEN RepoState(reply.value = "true", TRUE, TRUE)
    ELSE LET noRemote == reply.message = <<NoRemoteText>>
             notGit == \E i \in 1..Len(reply.message) : reply.message[i] = NotGitText
         IN  RepoState(FALSE, ~(notGit \/ noRemote), ~notGit)

\* A lastRepo that takes every answered request for a loaded index
LoadedRepoAnyAnswer(path, reply) == [path |-> path, loadResult |-> reply.ok]

\* eagerlyLoad: the lastRepo recorded for a reply
LoadedRepo(path, reply) ==
    [path |-> path, loadResult |-> reply.ok /\ reply.value = "true"]

\* What eagerlyLoad leaves behind once its request (or the handle) has
\* settled with `reply`: the two records and the status a subscriber sees
\* when statusEmitter fires at line 611.  `indexing` is pathBeingIndexed then.
Loaded(path, reply, indexing) ==
    LET states == [repoState EXCEPT ![path] = LoadedState(reply)]
        last == LoadedRepo(path, reply)
    IN  [states |-> states, last |-> last,
         seen |-> StatusOf(endpointIsDotcom, last, indexing, states, workspaceFolder)]

\* A load that reports success whatever was recorded
LoadReturnTrue(op, last) == IF op = "load" THEN "true" ELSE "void"

\* The value a finished eagerlyLoad gives the caller `op`: load returns the
\* load result, start and the reload after "Done" discard it.
LoadReturn(op, last) ==
    IF op = "load" THEN (IF last.loadResult THEN "true" ELSE "false") ELSE "void"

\* The events a finished eagerlyLoad fires for the caller `op`: the status
\* event of line 611 and, for the reload after "Done", the change event of
\* line 404.
LoadEvents(op, seen) ==
    IF op = "reload" THEN <<Event("status", seen), Event("change", seen)>>
    ELSE <<Event("status", seen)>>

\* eagerlyLoad(path) called by `op` in a step of `name`, with the handle in state svc0 after n0
\* spawns, the other suspended calls bag0, the events events0 already fired
\* in this step and pathBeingIndexed = indexing.
\* Line 581: getService(), then the embeddings/load request once the handle
\* is there; a rejected handle lands in the catch block of line 591.
EagerlyLoad(name, op, path, svc0, n0, bag0, events0, indexing) ==
    LET svc == GetService(svc0)
    IN  /\ service' = svc
        /\ spawns' = SpawnCount(svc0, n0)
        /\ IF Pending(svc)
           THEN /\ BagCardinality(bag0) < MaxCalls
                /\ calls' = Add(bag0, Call(op, "loadService", path))
                /\ step' = Step(name, path, "none", events0, <<>>, NoText)
                /\ UNCHANGED <<repoState, lastRepo>>
           ELSE IF svc = "resolved"
           THEN /\ BagCardinality(bag0) < MaxCalls
                /\ calls' = Add(bag0, Call(op, "reply", path))
                /\ step' = Step(name, path, "none", events0, <<Request("embeddings/load", path)>>, NoText)
                /\ UNCHANGED <<repoState, lastRepo>>
           ELSE LET l == Loaded(path, Err(SpawnError), indexing)
                IN  /\ calls' = bag0
                    /\ repoState' = l.states
                    /\ lastRepo' = l.last
                    /\ step' = Step(name, path, LoadReturn(op, l.last), events0 \o LoadEvents(op, l.seen),
                                    <<>>, NoText)

\* ------------------------------------------------- after `await getService()`

\* The request a method sends once it holds the handle.
RequestOf(c) ==
    CASE c.op = "index" -> Request("embeddings/index", c.arg)
      [] c.op = "setAccessToken" -> Request("embeddings/set-token", c.arg)
      [] OTHER -> Request("embeddings/query", c.arg)

\* An index() without its catch block
FailureIndexThrows(op) == IF op = "getContext" THEN "empty" ELSE "throw"

\* A getContext() without its catch block
FailureContextThrows(op) == IF op = "index" THEN "void" ELSE "throw"

\* What a method gives its caller when the handle or its request fails:
\* index (line 544) and getContext (line 628) catch, the others reject.
Failure(op) ==
    CASE op = "index" -> "void"
      [] op = "getContext" -> "empty"
      [] OTHER -> "throw"

\* What the engine may answer to the request of `op`.
RepliesTo(op) == IF op \in {"query", "getContext"} THEN QueryReplies ELSE AckReplies

\* A query that drops what the engine found
ReturnedNothing(op, reply) ==
    IF ~reply.ok THEN Failure(op)
    ELSE IF op \in {"query", "getContext"} THEN "empty" ELSE "void"

\* What a method returns for the reply to its request.
Returned(op, reply) ==
    IF ~reply.ok THEN Failure(op)
    ELSE IF op \in {"query", "getContext"} THEN reply.value ELSE "void"

\* The call `c` continues after its own `await this.getService()` with the
\* handle settled as `svc` (n spawns so far); bag0 are the other suspended calls.
\* Sets service, spawns, calls, step, engineToken, repoState, lastRepo.
After(c, svc, n, bag0, events0) ==
    IF svc = "rejected"
    THEN /\ service' = svc
         /\ spawns' = n
         /\ calls' = bag0
         /\ step' = Step(c.op, c.arg, Failure(c.op), events0, <<>>, NoText)
         /\ UNCHANGED <<engineToken, repoState, lastRepo>>
    ELSE IF c.op = "start"
    THEN /\ UNCHANGED engineToken
         /\ IF c.arg = NoPath
            THEN /\ service' = svc
                 /\ spawns' = n
                 /\ calls' = bag0
                 /\ step' = Step("start", c.arg, "void", events0, <<>>, NoText)
                 /\ UNCHANGED <<repoState, lastRepo>>
            ELSE EagerlyLoad("start", "start", c.arg, svc, n, bag0, events0, pathBeingIndexed)
    ELSE IF c.op = "index"
    THEN /\ service' = svc
         /\ spawns' = n
         /\ BagCardinality(bag0) < MaxCalls
         /\ calls' = Add(bag0, [c EXCEPT !.pc = "reply"])
         /\ step' = Step(c.op, c.arg, "none", events0, <<RequestOf(c)>>, NoText)
         /\ UNCHANGED <<engineToken, repoState, lastRepo>>
    ELSE /\ service' = svc
         /\ spawns' = n
         /\ calls' = bag0
         /\ \E reply \in RepliesTo(c.op) :
                step' = Replied(c.op, c.arg, Returned(c.op, reply), events0, <<RequestOf(c)>>, reply)
         /\ engineToken' = IF c.op = "setAccessToken" THEN c.arg ELSE engineToken
         /\ UNCHANGED <<repoState, lastRepo>>

\* The call `c` reaches `await this.getService()`.
Enter(c, events0) ==
    LET svc == GetService(service)
        n == SpawnCount(service, spawns)
    IN  IF Pending(svc)
        THEN /\ BagCardinality(calls) < MaxCalls
             /\ service' = svc
             /\ spawns' = n
             /\ calls' = Add(calls, c)
             /\ step' = Step(c.op, c.arg, "none", events0, <<>>, NoText)
             /\ UNCHANGED <<engineToken, repoState, lastRepo>>
        ELSE After(c, svc, n, calls, events0)

\* ------------------------------------------------------------------- Init

Workspaces == {NoPath, "p1"}

Init ==
    /\ service = "none"
    /\ serviceStarted = FALSE
    /\ accessToken = NoToken
    /\ endpointIsDotcom = FALSE
    /\ statusBar = NoBar
    /\ lastRepo = NoRepo
    /\ repoState = [p \in Paths |-> NoState]
    /\ pathBeingIndexed = NoPath
    /\ workspaceFolder \in Workspaces
    /\ calls = EmptyBag
    /\ spawns = 0
    /\ engineJobs = {}
    /\ engineToken = NoToken
    /\ step = NoStep
    /\ TrackerInit

\* --------------------------------------------------------- public methods

\* start(), lines 322-329
Start ==
    /\ Taken
    /\ UNCHANGED tracker
    /\ ~Resumable
    /\ Enter(Call("start", "service", workspaceFolder), <<>>)
    /\ UNCHANGED <<serviceStarted, accessToken, endpointIsDotcom, statusBar,
                   pathBeingIndexed, workspaceFolder, engineJobs>>

\* A comparison that never finds the token unchanged
SameTokenNever(token, current) == FALSE

\* line 343: token === this.accessToken (null is not undefined)
SameToken(token, current) == token = current

\* line 346: token || undefined
StoredToken(token) == IF token = NullToken THEN NoToken ELSE token

\* setAccessToken(serverEndpoint, token), lines 331-351
SetAccessToken(serverEndpoint, token) ==
    LET dotcom == isDotCom(serverEndpoint)
        seen == status
        events0 == IF dotcom # endpointIsDotcom
                   THEN <<Event("status", seen)>>
                        \o (IF serviceStarted THEN <<Event("change", seen)>> ELSE <<>>)
                   ELSE <<>>
    IN  /\ Taken
        /\ UNCHANGED tracker
        /\ ~Resumable
        /\ endpointIsDotcom' = dotcom
        /\ IF SameToken(token, accessToken)
           THEN /\ step' = Step("setAccessToken", token, "void", events0, <<>>, NoText)
                /\ UNCHANGED <<accessToken, service, spawns, calls, engineToken,
                               repoState, lastRepo>>
           ELSE /\ accessToken' = StoredToken(token)
                /\ IF token # NullToken /\ serviceStarted
                   THEN Enter(Call("setAccessToken", "service", token), events0)
                   ELSE /\ step' = Step("setAccessToken", token, "void", events0, <<>>, NoText)
                        /\ UNCHANGED <<service, spawns, calls, engineToken,
                                       repoState, lastRepo>>
        /\ UNCHANGED <<serviceStarted, statusBar, pathBeingIndexed, workspaceFolder,
                       engineJobs>>

\* A load that does not consult the cached RepoState
LoadShortCircuitsNoCache(repoPath) ==
    \/ ~endpointIsDotcom
    \/ repoPath = NoPath

\* A load that does not test the endpoint
LoadShortCircuitsNoDotcom(repoPath) ==
    \/ repoPath = NoPath
    \/ (repoState[repoPath].known /\ ~repoState[repoPath].hasIndex)

\* load(repoUri), lines 550-563: the checks that answer false at once
LoadShortCircuits(repoPath) ==
    \/ ~endpointIsDotcom
    \/ repoPath = NoPath
    \/ (repoState[repoPath].known /\ ~repoState[repoPath].hasIndex)

\* load(repoUri), lines 549-577; repoUri undefined is NoPath
Load(repoPath) ==
    /\ Taken
    /\ UNCHANGED tracker
    /\ ~Resumable
    /\ IF LoadShortCircuits(repoPath)
       THEN /\ step' = Step("load", repoPath, "false", <<>>, <<>>, NoText)
            /\ UNCHANGED <<service, spawns, calls, repoState, lastRepo>>
       ELSE IF ~serviceStarted
       THEN /\ service' = GetService(service)
            /\ spawns' = SpawnCount(service, spawns)
            /\ step' = Step("load", repoPath, "false", <<>>, <<>>, NoText)
            /\ UNCHANGED <<calls, repoState, lastRepo>>
       ELSE EagerlyLoad("load", "load", repoPath, service, spawns, calls, <<>>, pathBeingIndexed)
    /\ UNCHANGED <<serviceStarted, accessToken, endpointIsDotcom, statusBar,
                   pathBeingIndexed, workspaceFolder, engineJobs, engineToken>>

\* A guard that lets a loaded repository be indexed again
IndexGuardAnyResult == endpointIsDotcom /\ lastRepo # NoRepo

\* index(): the guard of line 525
IndexGuard == endpointIsDotcom /\ lastRepo # NoRepo /\ ~lastRepo.loadResult

\* index(), lines 524-535, up to the request
Index ==
    /\ Taken
    /\ UNCHANGED tracker
    /\ ~Resumable
    /\ IF ~IndexGuard
       THEN /\ step' = Step("index", NoPath, "void", <<>>, <<>>, NoText)
            /\ UNCHANGED <<service, spawns, calls, engineToken, repoState, lastRepo>>
       ELSE Enter(Call("index", "service", lastRepo.path), <<>>)
    /\ UNCHANGED <<serviceStarted, accessToken, endpointIsDotcom, statusBar,
                   pathBeingIndexed, workspaceFolder, engineJobs>>

\* query(text), lines 615-620, and getContext(text, n), lines 623-632
Query(op) ==
    /\ Taken
    /\ UNCHANGED tracker
    /\ ~Resumable
    /\ IF ~endpointIsDotcom
       THEN /\ step' = Step(op, "text", "empty", <<>>, <<>>, NoText)
            /\ UNCHANGED <<service, spawns, calls, engineToken, repoState, lastRepo>>
       ELSE Enter(Call(op, "service", "text"), <<>>)
    /\ UNCHANGED <<serviceStarted, accessToken, endpointIsDotcom, statusBar,
                   pathBeingIndexed, workspaceFolder, engineJobs>>

\* ----------------------------------------------------- suspended calls go on

\* A call suspended on the handle continues once the handle is settled.
Resume(c) ==
    /\ Taken
    /\ UNCHANGED tracker
    /\ BagIn(c, calls)
    /\ Settled(service)
    /\ c.pc \in {"service", "loadService"}
    /\ IF c.pc = "service"
       THEN After(c, service, spawns, Del(calls, c), <<>>)
       ELSE /\ UNCHANGED <<service, spawns, engineToken>>
            /\ IF service = "resolved"
               THEN /\ calls' = Add(Del(calls, c), [c EXCEPT !.pc = "reply"])
                    /\ step' = Step(c.op, c.arg, "none", <<>>, <<Request("embeddings/load", c.arg)>>, NoText)
                    /\ UNCHANGED <<repoState, lastRepo>>
               ELSE LET l == Loaded(c.arg, Err(SpawnError), pathBeingIndexed)
                    IN  /\ calls' = Del(calls, c)
                        /\ repoState' = l.states
                        /\ lastRepo' = l.last
                        /\ step' = Step(c.op, c.arg, LoadReturn(c.op, l.last), LoadEvents(c.op, l.seen),
                                        <<>>, NoText)
    /\ UNCHANGED <<serviceStarted, accessToken, endpointIsDotcom, statusBar,
                   pathBeingIndexed, workspaceFolder, engineJobs>>

\* eagerlyLoad, lines 581-613, from the reply to embeddings/load on
LoadReply(c, reply) ==
    /\ BagIn(c, calls)
    /\ Taken
    /\ UNCHANGED tracker
    /\ ~Resumable
    /\ c.pc = "reply"
    /\ c.op \in {"start", "load", "reload"}
    /\ LET l == Loaded(c.arg, reply, pathBeingIndexed)
       IN  /\ calls' = Del(calls, c)
           /\ repoState' = l.states
           /\ lastRepo' = l.last
           /\ step' = Step(c.op, c.arg, LoadReturn(c.op, l.last), LoadEvents(c.op, l.seen), <<>>, NoText)
    /\ UNCHANGED <<service, serviceStarted, accessToken, endpointIsDotcom, statusBar,
                   pathBeingIndexed, workspaceFolder, spawns, engineJobs, engineToken>>

\* index(), lines 536-546, from the reply to embeddings/index on
IndexReply(c, reply) ==
    /\ BagIn(c, calls)
    /\ Taken
    /\ UNCHANGED tracker
    /\ ~Resumable
    /\ c.pc = "reply"
    /\ c.op = "index"
    /\ calls' = Del(calls, c)
    /\ IF reply.ok
       THEN /\ engineJobs' = engineJobs \cup {c.arg}
            /\ pathBeingIndexed' = c.arg
            /\ statusBar' = Bar
            /\ step' = Step("index", c.arg, "void",
                            <<Event("status", StatusOf(endpointIsDotcom, lastRepo, c.arg,
                                                       repoState, workspaceFolder))>>,
                            <<>>, Text("created", NoPercent))
       ELSE /\ step' = Step("index", c.arg, Failure("index"), <<>>, <<>>, NoText)
            /\ UNCHANGED <<engineJobs, pathBeingIndexed, statusBar>>
    /\ UNCHANGED <<service, serviceStarted, accessToken, endpointIsDotcom, lastRepo,
                   repoState, workspaceFolder, spawns, engineToken>>

\* -------------------------------------------------- spawnAndBindService

\* spawnBfg settles, lines 361-369; on success the notification handler is
\* registered and embeddings/initialize is sent (line 430)
Spawned(ok) ==
    /\ service = "spawning"
    /\ Taken
    /\ UNCHANGED tracker
    /\ ~Resumable
    /\ service' = IF ok THEN "initializing" ELSE "rejected"
    /\ step' = Step("spawn", "none", "none", <<>>,
                    IF ok THEN <<Request("embeddings/initialize", "paths")>> ELSE <<>>, NoText)
    /\ UNCHANGED <<serviceStarted, accessToken, endpointIsDotcom, statusBar, lastRepo,
                   repoState, pathBeingIndexed, workspaceFolder, calls, spawns,
                   engineJobs, engineToken>>

\* lines 447-449: the handle is ready
ServiceReady ==
    /\ serviceStarted' = TRUE
    /\ service' = "resolved"
    /\ step' = Step("spawn", "none", "none", <<Event("change", status)>>, <<>>, NoText)

\* the reply to embeddings/initialize, lines 430-449
Initialized(reply) ==
    /\ service = "initializing"
    /\ Taken
    /\ UNCHANGED tracker
    /\ ~Resumable
    /\ IF ~reply.ok
       THEN /\ service' = "rejected"
            /\ step' = Step("spawn", "none", "none", <<>>, <<>>, NoText)
            /\ UNCHANGED <<serviceStarted, engineToken>>
       ELSE IF accessToken # NoToken
       THEN /\ service' = "settingToken"
            /\ engineToken' = accessToken
            /\ step' = Step("spawn", "none", "none", <<>>, <<Request("embeddings/set-token", accessToken)>>,
                            NoText)
            /\ UNCHANGED serviceStarted
       ELSE /\ ServiceReady
            /\ UNCHANGED engineToken
    /\ UNCHANGED <<accessToken, endpointIsDotcom, statusBar, lastRepo, repoState,
                   pathBeingIndexed, workspaceFolder, calls, spawns, engineJobs>>

\* the reply to the initial embeddings/set-token, lines 445-449
TokenSet(reply) ==
    /\ service = "settingToken"
    /\ Taken
    /\ UNCHANGED tracker
    /\ ~Resumable
    /\ IF reply.ok
       THEN ServiceReady
       ELSE /\ service' = "rejected"
            /\ step' = Step("spawn", "none", "none", <<>>, <<>>, NoText)
            /\ UNCHANGED serviceStarted
    /\ UNCHANGED <<accessToken, endpointIsDotcom, statusBar, lastRepo, repoState,
                   pathBeingIndexed, workspaceFolder, calls, spawns, engineJobs,
                   engineToken>>

\* -------------------------------------------- embeddings/progress handler

\* Math.floor((100 * numItems) / totalItems), line 378, as toFixed(0) prints it
Percent(numItems, totalItems) ==
    IF totalItems # 0 THEN [kind |-> "number", value |-> (100 * numItems) \div totalItems]
    ELSE IF numItems = 0 THEN [kind |-> "NaN", value |-> 0]
    ELSE [kind |-> "Infinity", value |-> 0]

\* { Progress: { numItems, totalItems, currentPath } }, lines 372-382
Progress(numItems, totalItems) ==
    /\ engineJobs # {}
    /\ Taken
    /\ UNCHANGED tracker
    /\ ~Resumable
    /\ step' = Step("Progress", "none", "void", <<>>, <<>>,
                    IF statusBar = NoBar THEN NoText
                    ELSE Text("progress", Percent(numItems, totalItems)))
    /\ UNCHANGED <<service, serviceStarted, accessToken, endpointIsDotcom, statusBar,
                   lastRepo, repoState, pathBeingIndexed, workspaceFolder, calls, spawns,
                   engineJobs, engineToken>>

\* An Error notification that also ends the indexing run
EngineErrorEndsRun ==
    /\ engineJobs # {}
    /\ Taken
    /\ UNCHANGED tracker
    /\ ~Resumable
    /\ pathBeingIndexed' = NoPath
    /\ step' = Step("Error", "none", "void", <<>>, <<>>,
                    IF statusBar = NoBar THEN NoText ELSE Text("warning", NoPercent))
    /\ UNCHANGED <<service, serviceStarted, accessToken, endpointIsDotcom, statusBar,
                   lastRepo, repoState, workspaceFolder, calls, spawns, engineJobs,
                   engineToken>>

\* { Error: message }, lines 372-374 and 383-387
EngineError ==
    /\ engineJobs # {}
    /\ Taken
    /\ UNCHANGED tracker
    /\ ~Resumable
    /\ step' = Step("Error", "none", "void", <<>>, <<>>,
                    IF statusBar = NoBar THEN NoText ELSE Text("warning", NoPercent))
    /\ UNCHANGED <<service, serviceStarted, accessToken, endpointIsDotcom, statusBar,
                   lastRepo, repoState, pathBeingIndexed, workspaceFolder, calls, spawns,
                   engineJobs, engineToken>>

\* any other payload, lines 372-375 and 410-413: another object is dropped,
\* anything else is logged and shown in an information message
Unrecognized(isObject) ==
    /\ engineJobs # {}
    /\ Taken
    /\ UNCHANGED tracker
    /\ ~Resumable
    /\ step' = Step("Unrecognized", "none", "void", <<>>, <<>>,
                    IF statusBar = NoBar \/ isObject THEN NoText ELSE Text("message", NoPercent))
    /\ UNCHANGED <<service, serviceStarted, accessToken, endpointIsDotcom, statusBar,
                   lastRepo, repoState, pathBeingIndexed, workspaceFolder, calls, spawns,
                   engineJobs, engineToken>>

\* A "Done" that reloads when another path has become the last-attempted one
ReloadsAfterDoneOtherPath ==
    pathBeingIndexed # NoPath /\ lastRepo # NoRepo /\ lastRepo.path # pathBeingIndexed

\* A "Done" that reloads whatever the last-attempted path is
ReloadsAfterDoneAlways == pathBeingIndexed # NoPath

\* line 399: whether "Done" reloads the path that was being indexed
ReloadsAfterDone ==
    pathBeingIndexed # NoPath /\ (lastRepo = NoRepo \/ lastRepo.path = pathBeingIndexed)

\* A "Done" that retires the indicator and forgets to clear pathBeingIndexed
DoneKeepsPath(path) ==
    /\ path \in engineJobs
    /\ Taken
    /\ UNCHANGED tracker
    /\ ~Resumable
    /\ engineJobs' = engineJobs \ {path}
    /\ statusBar' = NoBar
    /\ step' = Step("Done", path, "void",
                    IF statusBar = NoBar THEN <<>> ELSE <<Event("status", status)>>, <<>>, NoText)
    /\ UNCHANGED <<service, serviceStarted, accessToken, endpointIsDotcom, lastRepo,
                   repoState, pathBeingIndexed, workspaceFolder, calls, spawns, engineToken>>

\* "Done" for the engine's job on `path`, lines 372-374 and 389-409.  The
\* reload of lines 401-405 runs up to its first await inside the handler and
\* sends its request right after the handler has returned.
Done(path) ==
    /\ path \in engineJobs
    /\ Taken
    /\ UNCHANGED tracker
    /\ ~Resumable
    /\ engineJobs' = engineJobs \ {path}
    /\ IF statusBar = NoBar
       THEN /\ step' = Step("Done", path, "void", <<>>, <<>>, NoText)
            /\ UNCHANGED <<service, spawns, calls, statusBar, lastRepo, repoState,
                           pathBeingIndexed>>
       ELSE /\ statusBar' = NoBar
            /\ pathBeingIndexed' = NoPath
            /\ LET fired == <<Event("status", StatusOf(endpointIsDotcom, lastRepo, NoPath,
                                                       repoState, workspaceFolder))>>
               IN  IF ReloadsAfterDone
                   THEN EagerlyLoad("Done", "reload", pathBeingIndexed, service, spawns, calls,
                                    fired, NoPath)
                   ELSE /\ step' = Step("Done", path, "void", fired, <<>>, NoText)
                        /\ UNCHANGED <<service, spawns, calls, lastRepo, repoState>>
    /\ UNCHANGED <<serviceStarted, accessToken, endpointIsDotcom, workspaceFolder,
                   engineToken>>

\* get status(), lines 460-520: the caller reads the status
ReadStatus ==
    /\ Taken
    /\ UNCHANGED tracker
    /\ ~Resumable
    /\ step' = Step("status", "none", "void", <<Event("read", status)>>, <<>>, NoText)
    /\ UNCHANGED <<service, serviceStarted, accessToken, endpointIsDotcom, statusBar,
                   lastRepo, repoState, pathBeingIndexed, workspaceFolder, calls, spawns,
                   engineJobs, engineToken>>

\* What the last step gave out is taken by the caller, the subscribers and
\* the engine before anything else happens.
Observe ==
    /\ ~Taken
    /\ UNCHANGED tracker
    /\ step' = NoStep
    /\ UNCHANGED <<service, serviceStarted, accessToken, endpointIsDotcom, statusBar,
                   lastRepo, repoState, pathBeingIndexed, workspaceFolder, calls, spawns,
                   engineJobs, engineToken>>

\* ------------------------------------------------------------------- Next

Booleans == {TRUE, FALSE}
\* <<numItems, totalItems>> of the Progress notifications the engine sends
ItemCounts == {<<0, 0>>, <<1, 0>>, <<0, 2>>, <<1, 2>>, <<2, 2>>, <<3, 2>>}

Next ==
    \/ Start
    \/ \E e \in Endpoints, t \in Tokens \cup {NullToken} : SetAccessToken(e, t)
    \/ \E p \in Paths \cup {NoPath} : Load(p)
    \/ Index
    \/ \E op \in {"query", "getContext"} : Query(op)
    \/ \E c \in BagToSet(calls) : Resume(c)
    \/ \E c \in BagToSet(calls), r \in LoadReplies : LoadReply(c, r)
    \/ \E c \in BagToSet(calls), r \in AckReplies : IndexReply(c, r)
    \/ \E ok \in Booleans : Spawned(ok)
    \/ \E r \in AckReplies : Initialized(r)
    \/ \E r \in AckReplies : TokenSet(r)
    \/ \E items \in ItemCounts : Progress(items[1], items[2])
    \/ EngineError
    \/ \E o \in Booleans : Unrecognized(o)
    \/ \E p \in Paths : Done(p)
    \/ ReadStatus
    \/ Observe

Spec == Init /\ [][Next]_vars

\* ------------------------------------------------- status on any session state

\* Every combination of the fields the status getter reads.
RepoStates == {NoState} \cup {RepoState(h, i, g) : h \in Booleans, i \in Booleans, g \in Booleans}
LastRepos == {NoRepo} \cup [path : Paths, loadResult : Booleans]

InitStatus ==
    /\ service = "none"
    /\ serviceStarted = FALSE
    /\ accessToken = NoToken
    /\ endpointIsDotcom \in Booleans
    /\ statusBar = NoBar
    /\ lastRepo \in LastRepos
    /\ repoState \in [Paths -> RepoStates]
    /\ pathBeingIndexed \in Paths \cup {NoPath}
    /\ workspaceFolder \in Workspaces
    /\ calls = EmptyBag
    /\ spawns = 0
    /\ engineJobs = {}
    /\ engineToken = NoToken
    /\ step = NoStep
    /\ TrackerInit

NextStatus == ReadStatus \/ Observe

SpecStatus == InitStatus /\ [][NextStatus]_vars

\* ------------------------------------------------- the code-block tracker

\* onTextDocumentChange calls that may await the clipboard at one time
MaxChanges == 1

Texts == {"", "a", "b"}
Sources == {"chat", "inline-chat"}

CopyText == <<"c", "o", "p", "y">>
InsertText == <<"i", "n", "s", "e", "r", "t">>

\* String.prototype.includes and startsWith
Includes(s, t) == \E i \in 0..(Len(s) - Len(t)) : SubSeq(s, i + 1, i + Len(t)) = t
StartsWith(s, t) == Len(s) >= Len(t) /\ SubSeq(s, 1, Len(t)) = t

\* line 38: the op logged with the event
Op(eventName) ==
    IF Includes(eventName, CopyText) THEN "copy"
    ELSE IF StartsWith(eventName, InsertText) THEN "insert"
    ELSE "save"

Bool(b) == IF b THEN "true" ELSE "false"

\* setLastStoredCode(code, eventName, source), lines 24-49, called by `name`
SetLastStoredCode(name, code, eventName, source) ==
    /\ insertInProgress' = ~Includes(eventName, CopyText)
    /\ lastStoredCode' = [code |-> code, eventName |-> eventName, source |-> source]
    /\ out' = Out(name, "void", Op(eventName))
    /\ UNCHANGED <<lastClipboardText, clipboard, changes>>

\* setLastTextFromClipboard(clipboardText), lines 51-53; "" stands for a
\* missing or empty argument
SetLastTextFromClipboard(clipboardText) ==
    /\ lastClipboardText' = IF clipboardText # "" THEN clipboardText ELSE clipboard
    /\ out' = Out("setLastTextFromClipboard", "void", "none")
    /\ UNCHANGED <<lastStoredCode, insertInProgress, clipboard, changes>>
    /\ UNCHANGED controller

\* handleCodeFromInsertAtCursor(text, meta), lines 60-76
HandleCodeFromInsertAtCursor(text, source, hasEditor) ==
    /\ IF hasEditor
       THEN SetLastStoredCode("handleCodeFromInsertAtCursor", text, InsertButton, source)
       ELSE /\ out' = Out("handleCodeFromInsertAtCursor", "throw", "none")
            /\ UNCHANGED <<lastStoredCode, insertInProgress, lastClipboardText, clipboard,
                           changes>>
    /\ UNCHANGED controller

\* handleCodeFromSaveToNewFile(text, meta), lines 81-84
HandleCodeFromSaveToNewFile(text, source) ==
    /\ SetLastStoredCode("handleCodeFromSaveToNewFile", text, SaveButton, source)
    /\ UNCHANGED controller

\* handleCopiedCode(text, isButtonClickEvent, meta), lines 89-97
HandleCopiedCode(text, isButtonClickEvent, source) ==
    LET copiedCode == IF isButtonClickEvent THEN text ELSE clipboard
        eventName == IF isButtonClickEvent THEN CopyButton ELSE KeyDownCopy
    IN  /\ IF copiedCode # ""
           THEN SetLastStoredCode("handleCopiedCode", copiedCode, eventName, source)
           ELSE /\ out' = Out("handleCopiedCode", "void", "none")
                /\ UNCHANGED <<lastStoredCode, insertInProgress, lastClipboardText,
                               clipboard, changes>>
        /\ UNCHANGED controller

\* isLastStoredCode(code), lines 102-104
IsLastStoredCode(code) ==
    /\ out' = Out("isLastStoredCode",
                  Bool(code = lastStoredCode.code \/ code = lastClipboardText), "none")
    /\ UNCHANGED <<lastStoredCode, insertInProgress, lastClipboardText, clipboard, changes>>
    /\ UNCHANGED controller

\* matchCodeInStore(code), lines 109-115.  matchCodeSnippets is imported from
\* code-count and not at hand: matchesClipboard and matchesStored are what its
\* two evaluations return.
MatchCodeInStore(code, matchesClipboard, matchesStored) ==
    /\ IF insertInProgress
       THEN /\ insertInProgress' = FALSE
            /\ out' = Out("matchCodeInStore", "false", "none")
       ELSE /\ out' = Out("matchCodeInStore", Bool(matchesClipboard /\ matchesStored), "none")
            /\ UNCHANGED insertInProgress
    /\ UNCHANGED <<lastStoredCode, lastClipboardText, clipboard, changes>>
    /\ UNCHANGED controller

\* onTextDocumentChange(newCode), lines 118-130, up to the await
OnTextDocumentChange(newCode) ==
    /\ IF lastStoredCode.code = ""
       THEN /\ out' = Out("onTextDocumentChange", "void", "none")
            /\ UNCHANGED <<insertInProgress, changes>>
       ELSE IF insertInProgress
       THEN /\ insertInProgress' = FALSE
            /\ out' = Out("onTextDocumentChange", "void", "none")
            /\ UNCHANGED changes
       ELSE /\ BagCardinality(changes) < MaxChanges
            /\ changes' = Add(changes, [code |-> lastStoredCode.code,
                                        source |-> lastStoredCode.source,
                                        newCode |-> newCode])
            /\ out' = Out("onTextDocumentChange", "none", "none")
            /\ UNCHANGED insertInProgress
    /\ UNCHANGED <<lastStoredCode, lastClipboardText, clipboard>>
    /\ UNCHANGED controller

\* line 135: the event type of the paste event
EventType(source) == IF source = "inline-chat" THEN "inlineChat:Paste" ELSE "keyDown:Paste"

\* onTextDocumentChange, lines 130-156, once readText() has resolved;
\* matchesClipboard and matchesNewCode are what the two evaluations of
\* matchCodeSnippets at line 133 return
ClipboardRead(c, matchesClipboard, matchesNewCode) ==
    /\ BagIn(c, changes)
    /\ changes' = Del(changes, c)
    /\ lastClipboardText' = clipboard
    /\ out' = Out("onTextDocumentChange", "void",
                  IF matchesClipboard /\ matchesNewCode THEN EventType(c.source) ELSE "none")
    /\ UNCHANGED <<lastStoredCode, insertInProgress, clipboard>>
    /\ UNCHANGED controller

\* The user or another program puts text on the clipboard.
Copy(text) ==
    /\ clipboard' = text
    /\ UNCHANGED <<lastStoredCode, insertInProgress, lastClipboardText, changes, out>>
    /\ UNCHANGED controller

NextTracker ==
    \/ \E t \in Texts : SetLastTextFromClipboard(t)
    \/ \E t \in Texts, s \in Sources, e \in Booleans : HandleCodeFromInsertAtCursor(t, s, e)
    \/ \E t \in Texts, s \in Sources : HandleCodeFromSaveToNewFile(t, s)
    \/ \E t \in Texts, b \in Booleans, s \in Sources : HandleCopiedCode(t, b, s)
    \/ \E t \in Texts : IsLastStoredCode(t)
    \/ \E t \in Texts, m \in Booleans, n \in Booleans : MatchCodeInStore(t, m, n)
    \/ \E t \in Texts : OnTextDocumentChange(t)
    \/ \E c \in BagToSet(changes), m \in Booleans, n \in Booleans : ClipboardRead(c, m, n)
    \/ \E t \in Texts : Copy(t)

SpecTracker == Init /\ [][NextTracker]_vars

\* ================================================================ properties

States(groups) == [i \in DOMAIN groups |-> groups[i].state]

\* The states the priority order (1)-(6) gives on the current fields.
PriorityStates ==
    IF ~endpointIsDotcom THEN <<>>
    ELSE IF lastRepo = NoRepo THEN <<"indeterminate">>
    ELSE IF pathBeingIndexed = lastRepo.path THEN <<"indexing">>
    ELSE IF lastRepo.loadResult THEN <<"ready">>
    ELSE IF ~repoState[lastRepo.path].known \/ ~repoState[lastRepo.path].isGit THEN <<>>
    ELSE IF repoState[lastRepo.path].indexable THEN <<"unconsented">>
    ELSE <<"no-match">>

\* C1: on every combination of endpointIsDotcom, lastRepo, pathBeingIndexed
\* and repoState, a read of status returns what the priority order (1)-(6)
\* gives on those fields, never more than one group, and changes no field.
C1_StatusPriority ==
    [][step'.name = "status" =>
          LET read == step'.events[1].seen
          IN  /\ States(read) = PriorityStates
              /\ Len(read) <= 1
              /\ UNCHANGED <<ctl, workspaceFolder, calls, spawns, engineJobs, engineToken>>]_vars

\* A read that falls through to rule (6) and answers "no-match", with another
\* path being indexed.
C1_Witness ==
    /\ step.name = "status"
    /\ States(step.events[1].seen) = <<"no-match">>
    /\ pathBeingIndexed \notin {NoPath, lastRepo.path}

\* C2: while a spawn attempt is pending or has succeeded, no step starts
\* another spawn: the memoized handle stays the one of that attempt, whatever
\* call asks for it.
C2_OneSpawn ==
    [][(Pending(service) \/ service = "resolved") =>
          /\ spawns' = spawns
          /\ (service' = "spawning" => service = "spawning")]_vars

\* load(p) asks for the handle while start() is suspended on the pending
\* spawn attempt: it joins that attempt.
C2_Witness ==
    /\ step.name = "load"
    /\ step.arg \in Paths
    /\ endpointIsDotcom
    /\ ~repoState[step.arg].known
    /\ Pending(service)
    /\ spawns = 1
    /\ \E c \in BagToSet(calls) : c.op = "start" /\ c.pc = "service"

\* C3 (as stated): after a failed spawn or initialize, the next call that asks
\* for the handle starts a fresh spawn attempt.
C3_RetryAfterFailure ==
    [][(service = "rejected" /\ (Start \/ (endpointIsDotcom /\ Query("query"))))
          => (service' = "spawning" /\ spawns' > spawns)]_vars

\* C4: load(p) with a RepoState recorded for p that says hasIndex = false
\* returns false and sends no request; with hasIndex = true recorded or no
\* entry, the endpoint dotcom and the service started, it sends an
\* embeddings/load request for p.
C4_NegativeCaching ==
    [][\A p \in Paths : Load(p) =>
          IF repoState[p].known /\ ~repoState[p].hasIndex
          THEN step'.ret = "false" /\ step'.sent = <<>>
          ELSE (endpointIsDotcom /\ serviceStarted)
                  => step'.sent = <<Request("embeddings/load", p)>>]_vars

\* load(p) answered from the negative cache although everything else would
\* let it ask the engine.
C4_Witness ==
    /\ step.name = "load"
    /\ step.arg \in Paths
    /\ step.ret = "false"
    /\ step.sent = <<>>
    /\ endpointIsDotcom
    /\ serviceStarted
    /\ repoState[step.arg].known
    /\ ~repoState[step.arg].hasIndex
    /\ lastRepo.path # step.arg

\* C5: a load that short-circuits (endpoint not dotcom, no path, negative
\* cache hit, or service not started) returns false in the same step, sends no
\* request, fires no event and leaves repoState, lastRepo and
\* pathBeingIndexed alone; if only the service is not started, all it does is
\* start the spawn attempt or join the one there is, and a failed attempt does
\* not make it throw; in the other cases it changes nothing at all.
C5_LoadShortCircuit ==
    [][\A p \in Paths \cup {NoPath} :
          LET cut == \/ ~endpointIsDotcom
                     \/ p = NoPath
                     \/ (repoState[p].known /\ ~repoState[p].hasIndex)
          IN  (Load(p) /\ (cut \/ ~serviceStarted)) =>
                 /\ step' = Step("load", p, "false", <<>>, <<>>, NoText)
                 /\ UNCHANGED <<repoState, lastRepo, pathBeingIndexed, serviceStarted, accessToken,
                                endpointIsDotcom, statusBar, calls, engineJobs, engineToken>>
                 /\ service' = (IF ~cut /\ service = "none" THEN "spawning" ELSE service)
                 /\ spawns' = (IF ~cut /\ service = "none" THEN spawns + 1 ELSE spawns)]_vars

\* load(p) before the service has started: it has started the spawn attempt
\* and returned false.
C5_Witness ==
    /\ step = Step("load", "p1", "false", <<>>, <<>>, NoText)
    /\ endpointIsDotcom
    /\ ~serviceStarted
    /\ ~repoState["p1"].known
    /\ service = "spawning"
    /\ spawns = 1
    /\ calls = EmptyBag

\* The replies to embeddings/load told apart by what the engine says.
NotGitReplies == {r \in LoadReplies : ~r.ok /\ \E i \in 1..Len(r.message) : r.message[i] = NotGitText}
NoRemoteReplies == {Err(<<NoRemoteText>>)}
NoIndexReplies == (LoadReplies \ {Ok("true")}) \ (NotGitReplies \cup NoRemoteReplies)

NotGitState == RepoState(FALSE, FALSE, FALSE)
NoRemoteState == RepoState(FALSE, FALSE, TRUE)

\* C6 (amended): a load attempt for p that the engine rejects as "not a git
\* repository" records repoState[p] = {indexable: false, isGit: false,
\* hasIndex: false} and lastRepo = {p, false}; while that is the record of
\* the last-attempted path, the endpoint is dotcom and p is not being
\* indexed, status is empty; with the endpoint dotcom and no load attempt
\* completed, status is "indeterminate".
C6_NonGit ==
    [][/\ \A c \in BagToSet(calls), r \in NotGitReplies :
              LoadReply(c, r) =>
                  /\ repoState'[c.arg] = NotGitState
                  /\ lastRepo' = [path |-> c.arg, loadResult |-> FALSE]
       /\ (endpointIsDotcom' /\ lastRepo' # NoRepo /\ repoState'[lastRepo'.path] = NotGitState
             /\ pathBeingIndexed' # lastRepo'.path)
            => status' = <<>>
       /\ (endpointIsDotcom' /\ lastRepo' = NoRepo)
            => States(status') = <<"indeterminate">>]_vars

\* load(p1) has just been rejected as "not a git repository": the subscriber
\* of the status event reads an empty status.
C6_Witness ==
    /\ step = Step("load", "p1", "false", <<Event("status", <<>>)>>, <<>>, NoText)
    /\ endpointIsDotcom
    /\ repoState["p1"] = NotGitState
    /\ lastRepo = [path |-> "p1", loadResult |-> FALSE]
    /\ status = <<>>

\* C6 (as stated): with the endpoint dotcom, status is empty whenever the
\* last-attempted path is recorded as not a git repository.
C6_NonGitAlwaysEmpty ==
    (endpointIsDotcom /\ lastRepo # NoRepo /\ repoState[lastRepo.path] = NotGitState)
        => status = <<>>

\* C7: a load attempt for p that the engine rejects with exactly the "no
\* default fetch URL" message records repoState[p] = {indexable: false,
\* isGit: true, hasIndex: false}; while that is the record of the
\* last-attempted path, the endpoint is dotcom and p is not being indexed,
\* status reports "no-match" for p.
C7_NoRemote ==
    [][/\ \A c \in BagToSet(calls), r \in NoRemoteReplies :
              LoadReply(c, r) =>
                  /\ repoState'[c.arg] = NoRemoteState
                  /\ lastRepo'.path = c.arg
       /\ (endpointIsDotcom' /\ lastRepo' # NoRepo /\ repoState'[lastRepo'.path] = NoRemoteState
             /\ pathBeingIndexed' # lastRepo'.path)
            => status' = <<Group(lastRepo'.path, "no-match")>>]_vars

\* load(p1) has just been rejected for the missing remote: the subscriber of
\* the status event reads "no-match" for p1.
C7_Witness ==
    /\ step = Step("load", "p1", "false", <<Event("status", <<Group("p1", "no-match")>>)>>, <<>>, NoText)
    /\ repoState["p1"] = NoRemoteState
    /\ status = <<Group("p1", "no-match")>>

Unconsented(p) == <<Group(p, "unconsented")>>

\* An index() call has been made and its request is not answered yet.
IndexCalled == \E c \in BagToSet(calls) : c.op = "index"

\* This step is a load attempt for p that the engine answers otherwise than
\* for a git repository with a remote and no index.
AnswersOtherwise(p) ==
    \E c \in BagToSet(calls), r \in LoadReplies \ NoIndexReplies : c.arg = p /\ LoadReply(c, r)

\* C8 (amended): for a git repository p with a remote and no index (the engine
\* answers embeddings/load for p with false or an unclassified failure), a
\* load attempt for p that completes while the endpoint is dotcom and p is not
\* being indexed leaves status "unconsented" for p; status stays so across
\* every step after which the endpoint is dotcom, p is the last-attempted
\* path and p is not being indexed; when an embeddings/index request for p is
\* accepted, pathBeingIndexed becomes p and a status event fires, and status
\* is "indexing" for p if the endpoint is dotcom and p is still the
\* last-attempted path.
C8_UnconsentedUntilIndexed ==
    [][/\ \A c \in BagToSet(calls), r \in NoIndexReplies :
              (LoadReply(c, r) /\ endpointIsDotcom /\ pathBeingIndexed # c.arg)
                  => status' = Unconsented(c.arg)
       /\ \A p \in Paths :
              (status = Unconsented(p) /\ ~AnswersOtherwise(p) /\ endpointIsDotcom'
                 /\ lastRepo'.path = p /\ pathBeingIndexed' # p)
                  => status' = Unconsented(p)
       /\ \A c \in BagToSet(calls) :
              IndexReply(c, Ok("ack")) =>
                  /\ pathBeingIndexed' = c.arg
                  /\ step'.events = <<Event("status", status')>>
                  /\ (endpointIsDotcom /\ lastRepo.path = c.arg)
                        => status' = <<Group(c.arg, "indexing")>>]_vars

\* The index request for p1 has just been accepted while the status of p1
\* was "unconsented": the subscriber of the status event reads "indexing".
C8_Witness ==
    /\ step.name = "index"
    /\ step.events = <<Event("status", <<Group("p1", "indexing")>>)>>
    /\ pathBeingIndexed = "p1"
    /\ repoState["p1"] = RepoState(FALSE, TRUE, TRUE)
    /\ status = <<Group("p1", "indexing")>>

\* C8 (as stated): once status is "unconsented" for p it stays so across
\* every step that leaves p the last-attempted path, as long as index() has
\* not been called and the engine keeps answering as for a repository
\* without an index.
C8_UnconsentedUntilIndexCalled ==
    [][\A p \in Paths :
          (status = Unconsented(p) /\ ~AnswersOtherwise(p) /\ lastRepo'.path = p
             /\ ~IndexCalled /\ ~IndexCalled' /\ step'.name # "index")
              => status' = Unconsented(p)]_vars

\* C9 (amended): when load(p) returns true, status is "ready" for p provided
\* the endpoint is dotcom then and p is not being indexed.
C9_ReadyAfterLoad ==
    (step.name = "load" /\ step.ret = "true" /\ endpointIsDotcom /\ pathBeingIndexed # step.arg)
        => (status = <<Group(step.arg, "ready")>> /\ step.events = <<Event("status", status)>>)

\* load(p1) has just returned true and status is "ready" for p1.
C9_Witness ==
    /\ step.name = "load"
    /\ step.arg = "p1"
    /\ step.ret = "true"
    /\ status = <<Group("p1", "ready")>>

\* C9 (as stated): when load(p) returns true, status is "ready" for p.
C9_AlwaysReadyAfterLoad ==
    (step.name = "load" /\ step.ret = "true") => status = <<Group(step.arg, "ready")>>

\* C10: index() called when the endpoint is not dotcom, or no load attempt
\* has completed, or the last one succeeded, returns normally in that step,
\* sends nothing, fires nothing and changes no field: no spawn, and
\* pathBeingIndexed, lastRepo, repoState and the indicator stay as they are.
C10_IndexNoOp ==
    [][(Index /\ ~(endpointIsDotcom /\ lastRepo # NoRepo /\ ~lastRepo.loadResult)) =>
          /\ step'.ret = "void"
          /\ step'.sent = <<>>
          /\ step'.events = <<>>
          /\ step'.shown = NoText
          /\ UNCHANGED <<ctl, workspaceFolder, calls, spawns, engineJobs, engineToken>>]_vars

\* index() has just returned without doing anything on a repository whose
\* index is loaded, the engine not even spawned.
C10_Witness ==
    /\ step.name = "index"
    /\ step.ret = "void"
    /\ endpointIsDotcom
    /\ lastRepo # NoRepo
    /\ lastRepo.loadResult
    /\ pathBeingIndexed = NoPath
    /\ statusBar = NoBar

\* This step is the acceptance of an embeddings/index request.
IndexAccepted == \E c \in BagToSet(calls) : IndexReply(c, Ok("ack"))

\* C11: when the embeddings/index request fails, or the handle index() waits
\* for is rejected, index() returns normally; and no step of an index() call
\* other than the acceptance of its request changes pathBeingIndexed, the
\* indicator, lastRepo, repoState or status, or fires an event.
C11_IndexFailure ==
    [][/\ \A c \in BagToSet(calls), r \in AckReplies :
              (IndexReply(c, r) /\ ~r.ok) => step'.ret = "void"
       /\ (service = "rejected" /\ step'.name = "index") => step'.ret = "void"
       /\ (step'.name = "index" /\ ~IndexAccepted) =>
              /\ step'.ret \in {"none", "void"}
              /\ step'.events = <<>>
              /\ step'.shown = NoText
              /\ UNCHANGED <<pathBeingIndexed, statusBar, lastRepo, repoState, endpointIsDotcom,
                             serviceStarted, accessToken, engineJobs, engineToken>>
              /\ status' = status]_vars

\* The engine has just refused the index request for p1 while p2 was being
\* indexed: index() has returned and p2 is still the path being indexed.
C11_Witness ==
    /\ step = Step("index", "p1", "void", <<>>, <<>>, NoText)
    /\ lastRepo = [path |-> "p1", loadResult |-> FALSE]
    /\ endpointIsDotcom
    /\ pathBeingIndexed = "p2"
    /\ statusBar = Bar
    /\ \A c \in BagToSet(calls) : c.op # "index"

\* C12 (as stated): an index() call made while the last-attempted path is
\* being indexed, or has its index loaded, sends no embeddings/index request
\* and leaves no call waiting for one.
C12_SingleSlot ==
    [][(Index /\ lastRepo # NoRepo /\ (pathBeingIndexed = lastRepo.path \/ lastRepo.loadResult))
          => (step'.sent = <<>> /\ calls' = calls)]_vars

C14_DoneOtherPath ==
    [][\A p \in Paths :
          (Done(p) /\ pathBeingIndexed # NoPath /\ lastRepo # NoRepo
             /\ pathBeingIndexed # lastRepo.path) =>
              /\ step' = Step("Done", p, "void", <<Event("status", status')>>, <<>>, NoText)
              /\ calls' = calls
              /\ pathBeingIndexed' = NoPath
              /\ UNCHANGED <<lastRepo, repoState, service, spawns>>]_vars

\* "Done" for p1 has just been handled after p2 became the last-attempted
\* path: one status event, no request.
C14_Witness ==
    /\ step.name = "Done"
    /\ step.arg = "p1"
    /\ Len(step.events) = 1
    /\ step.sent = <<>>
    /\ lastRepo.path = "p2"
    /\ pathBeingIndexed = NoPath
    /\ calls = EmptyBag

\* C15: setAccessToken(e, t) leaves endpointIsDotcom and accessToken as e and
\* t give them; called again with the same e and t it fires no event, sends
\* no request and changes no field.
C15_SetTokenIdempotent ==
    [][\A e \in Endpoints, t \in Tokens \cup {NullToken} :
          LET dotcom == e.parses /\ e.origin = DotcomOrigin
              stored == IF t = NullToken THEN NoToken ELSE t
          IN  SetAccessToken(e, t) =>
                 /\ endpointIsDotcom' = dotcom
                 /\ accessToken' = stored
                 /\ (endpointIsDotcom = dotcom /\ accessToken = stored) =>
                        /\ step' = Step("setAccessToken", t, "void", <<>>, <<>>, NoText)
                        /\ UNCHANGED <<ctl, workspaceFolder, calls, spawns, engineJobs,
                                       engineToken>>]_vars

\* setAccessToken has just been called with the token the started service
\* already has, on the dotcom endpoint: nothing was sent or fired.
C15_Witness ==
    /\ step = Step("setAccessToken", "t1", "void", <<>>, <<>>, NoText)
    /\ accessToken = "t1"
    /\ engineToken = "t1"
    /\ endpointIsDotcom
    /\ serviceStarted

Kinds(events) == [i \in DOMAIN events |-> events[i].ev]

\* C16: setAccessToken(e, t) sets endpointIsDotcom to whether e is the dotcom
\* endpoint; it fires one status event exactly when that changes the flag,
\* followed by one change event exactly when the service has started as
\* well, and no event otherwise; after a call with another or a malformed
\* endpoint status is empty; lastRepo, repoState and pathBeingIndexed stay.
C16_SetTokenEndpoint ==
    [][\A e \in Endpoints, t \in Tokens \cup {NullToken} :
          LET dotcom == e.parses /\ e.origin = DotcomOrigin
          IN  SetAccessToken(e, t) =>
                 /\ endpointIsDotcom' = dotcom
                 /\ Kinds(step'.events) =
                        (IF dotcom = endpointIsDotcom THEN <<>>
                         ELSE IF serviceStarted THEN <<"status", "change">>
                         ELSE <<"status">>)
                 /\ (~dotcom => status' = <<>>)
                 /\ UNCHANGED <<lastRepo, repoState, pathBeingIndexed>>]_vars

\* setAccessToken has just switched a started controller with a loaded
\* repository away from dotcom: both events fired and status is empty.
C16_Witness ==
    /\ step.name = "setAccessToken"
    /\ Kinds(step.events) = <<"status", "change">>
    /\ ~endpointIsDotcom
    /\ lastRepo # NoRepo
    /\ lastRepo.loadResult
    /\ status = <<>>

Queries == {"query", "getContext"}

\* C17: query and getContext called with the endpoint not dotcom return the
\* empty result set at once and touch neither the handle nor the engine.
\* Otherwise, once the handle is there, the call sends one embeddings/query
\* request; query returns the result set of the engine's reply as it is and
\* throws if the request fails, getContext returns the same result set and
\* the empty list if the request fails; if the handle is rejected nothing is
\* sent, query throws and getContext returns the empty list.
C17_Query ==
    [][/\ \A op \in Queries :
              (Query(op) /\ ~endpointIsDotcom) =>
                  /\ step' = Step(op, "text", "empty", <<>>, <<>>, NoText)
                  /\ UNCHANGED <<ctl, workspaceFolder, calls, spawns, engineJobs, engineToken>>
       /\ (step'.name \in Queries /\ step'.ret # "none"
             /\ ~(Taken /\ ~Resumable /\ ~endpointIsDotcom)) =>
              IF service' = "resolved"
              THEN /\ step'.sent = <<Request("embeddings/query", "text")>>
                   /\ step'.got \in QueryReplies
                   /\ step'.ret = (IF step'.got.ok THEN step'.got.value
                                   ELSE IF step'.name = "query" THEN "throw" ELSE "empty")
              ELSE /\ step'.sent = <<>>
                   /\ step'.ret = (IF step'.name = "query" THEN "throw" ELSE "empty")
       /\ (step'.name \in Queries) =>
              /\ step'.events = <<>>
              /\ UNCHANGED <<serviceStarted, accessToken, endpointIsDotcom, statusBar, lastRepo,
                             repoState, pathBeingIndexed, engineJobs, engineToken>>]_vars

\* getContext has just turned a failed embeddings/query request into the
\* empty list.
C17_Witness ==
    /\ step.name = "getContext"
    /\ step.sent = <<Request("embeddings/query", "text")>>
    /\ ~step.got.ok
    /\ step.ret = "empty"

\* ------------------------------------------------- the indexing scenario

\* A started controller on dotcom whose last load attempt found a git
\* repository with a remote and no index: status is "unconsented".
InitScenario ==
    /\ service = "resolved"
    /\ serviceStarted = TRUE
    /\ accessToken = NoToken
    /\ endpointIsDotcom = TRUE
    /\ statusBar = NoBar
    /\ \E p \in Paths :
          /\ lastRepo = [path |-> p, loadResult |-> FALSE]
          /\ repoState = [q \in Paths |-> IF q = p THEN RepoState(FALSE, TRUE, TRUE) ELSE NoState]
    /\ pathBeingIndexed = NoPath
    /\ workspaceFolder \in Workspaces
    /\ calls = EmptyBag
    /\ spawns = 1
    /\ engineJobs = {}
    /\ engineToken = NoToken
    /\ step = NoStep
    /\ TrackerInit

\* The user consents, the engine accepts, reports progress and "Done", and
\* answers the load that follows with an index.
EngineDone == \E p \in Paths : Done(p)
IndexIsLoaded == \E c \in BagToSet(calls) : LoadReply(c, Ok("true"))

NextScenario ==
    \/ Index
    \/ IndexAccepted
    \/ \E items \in ItemCounts : Progress(items[1], items[2])
    \/ EngineError
    \/ \E isObject \in Booleans : Unrecognized(isObject)
    \/ EngineDone
    \/ IndexIsLoaded
    \/ ReadStatus
    \/ Observe

\* The engine does answer and does finish its job; what a step gave out is
\* taken.
SpecScenario ==
    /\ InitScenario
    /\ [][NextScenario]_vars
    /\ WF_vars(Observe)
    /\ SF_vars(IndexAccepted)
    /\ SF_vars(EngineDone)
    /\ SF_vars(IndexIsLoaded)

\* C18: in the indexing scenario, from the acceptance of the index request
\* status is "indexing" for the repository as long as it is being indexed,
\* and once it is being indexed status eventually is "ready" for it.
C18_IndexThenReady ==
    /\ [](pathBeingIndexed # NoPath => status = <<Group(lastRepo.path, "indexing")>>)
    /\ (pathBeingIndexed # NoPath) ~> (status = <<Group(lastRepo.path, "ready")>>)

\* The reload after "Done" has just found the index: status is "ready".
C18_Witness ==
    /\ step.name = "reload"
    /\ step.arg = "p1"
    /\ pathBeingIndexed = NoPath
    /\ status = <<Group("p1", "ready")>>

\* C19 (as stated): the percentage a Progress notification writes to the
\* indicator is a number between 0 and 100.
C19_PercentClamped ==
    (step.name = "Progress" /\ step.shown # NoText) =>
        /\ step.shown.percent.kind = "number"
        /\ step.shown.percent.value >= 0
        /\ step.shown.percent.value <= 100

\* C20: no recorded RepoState has isGit = false with indexable = true; an
\* entry, once recorded, stays recorded; and an entry changes only in a step
\* that completes a load attempt for its path (the step that also sets
\* lastRepo to that path and fires the status event of the attempt).
C20_RepoStateInvariant ==
    /\ [](\A p \in Paths : (repoState[p].known /\ ~repoState[p].isGit) => ~repoState[p].indexable)
    /\ [][\A p \in Paths :
             /\ repoState[p].known => repoState'[p].known
             /\ (repoState'[p] # repoState[p]) =>
                    /\ step'.name \in {"start", "load", "reload"}
                    /\ step'.arg = p
                    /\ step'.ret # "none"
                    /\ lastRepo'.path = p
                    /\ \E i \in DOMAIN step'.events : step'.events[i].ev = "status"]_vars

\* Both paths have an entry: p1 recorded as not a git repository, p2 recorded
\* by the load attempt that has just completed.
C20_Witness ==
    /\ repoState["p1"] = NotGitState
    /\ repoState["p2"] = RepoState(FALSE, TRUE, TRUE)
    /\ step.name = "load"
    /\ step.arg = "p2"
    /\ step.ret = "false"
    /\ step.events # <<>>

\* The failures of embeddings/load that the controller does not classify.
UnclassifiedReplies == {r \in LoadReplies : ~r.ok} \ (NotGitReplies \cup NoRemoteReplies)

\* C21 (amended): a load attempt for p that fails with an unclassified
\* message records repoState[p] = {indexable: true, isGit: true, hasIndex:
\* false} and lastRepo = {p, false}; with the endpoint dotcom and p not being
\* indexed, status then is "unconsented" for p.
C21_UnclassifiedFailure ==
    [][\A c \in BagToSet(calls), r \in UnclassifiedReplies :
          LoadReply(c, r) =>
              /\ repoState'[c.arg] = RepoState(FALSE, TRUE, TRUE)
              /\ lastRepo' = [path |-> c.arg, loadResult |-> FALSE]
              /\ (endpointIsDotcom /\ pathBeingIndexed # c.arg)
                    => status' = Unconsented(c.arg)]_vars

\* A load attempt for p1 has just failed and left p1 open to consent.
C21_Witness ==
    /\ step = Step("load", "p1", "false", <<Event("status", Unconsented("p1"))>>, <<>>, NoText)
    /\ repoState["p1"] = RepoState(FALSE, TRUE, TRUE)
    /\ lastRepo = [path |-> "p1", loadResult |-> FALSE]
    /\ status = Unconsented("p1")

\* C21 (as stated): a load attempt that fails with an unclassified message
\* records the path as not indexable.
C21_UnclassifiedNotIndexable ==
    [][\A c \in BagToSet(calls), r \in UnclassifiedReplies :
          LoadReply(c, r) => ~repoState'[c.arg].indexable]_vars

\* C22 (as stated): no call of a public method ends by throwing.
C22_NothingThrows == step.ret # "throw"

\* The methods of the requests a step sent
Methods(sent) == {sent[i].method : i \in DOMAIN sent}

\* C23: while the handle is not ready the only requests sent are
\* embeddings/initialize, sent when cody-engine has been spawned, and then
\* embeddings/set-token, sent with the stored token by the step that receives
\* the successful reply to initialize when a token is known; serviceStarted
\* becomes true, with the controller-changed event, only in the step that
\* receives the successful reply to the last of these requests; no
\* embeddings/load, embeddings/index or embeddings/query is sent before.
C23_InitOrdering ==
    [][/\ (step'.sent # <<>> /\ service \in {"none", "spawning", "rejected"})
            => /\ service = "spawning"
               /\ service' = "initializing"
               /\ step'.sent = <<Request("embeddings/initialize", "paths")>>
       /\ (step'.sent # <<>> /\ service \in {"initializing", "settingToken"})
            => /\ service = "initializing"
               /\ service' = "settingToken"
               /\ accessToken # NoToken
               /\ step'.sent = <<Request("embeddings/set-token", accessToken)>>
       /\ (Initialized(Ok("ack")) /\ accessToken # NoToken)
            => /\ step'.sent = <<Request("embeddings/set-token", accessToken)>>
               /\ ~serviceStarted'
       /\ (~serviceStarted /\ serviceStarted')
            => /\ \/ TokenSet(Ok("ack"))
                  \/ Initialized(Ok("ack")) /\ accessToken = NoToken
               /\ service' = "resolved"
               /\ Kinds(step'.events) = <<"change">>
       /\ (\E i \in DOMAIN step'.events : step'.events[i].ev = "change") => serviceStarted'
       /\ (Methods(step'.sent) \cap {"embeddings/load", "embeddings/index", "embeddings/query"} # {})
            => serviceStarted /\ service = "resolved"]_vars

\* The reply to embeddings/initialize has arrived with a token known, and
\* embeddings/set-token has been sent while the service is not yet started.
C23_Witness ==
    /\ service = "settingToken"
    /\ ~serviceStarted
    /\ step = Step("spawn", "none", "none", <<>>, <<Request("embeddings/set-token", "t1")>>, NoText)

\* C24: a Progress, Error or unrecognized notification leaves
\* pathBeingIndexed, lastRepo, repoState, serviceStarted, accessToken and
\* endpointIsDotcom (and so status) unchanged and fires no event; a set
\* pathBeingIndexed is cleared by a Done notification only, so after an Error
\* the path stays in its indexing state.
C24_NotificationFrame ==
    [][/\ (EngineError \/ (\E n \in ItemCounts : Progress(n[1], n[2]))
                       \/ (\E b \in Booleans : Unrecognized(b)))
            => /\ UNCHANGED <<pathBeingIndexed, lastRepo, repoState, serviceStarted,
                              accessToken, endpointIsDotcom>>
               /\ status' = status
               /\ step'.events = <<>>
       /\ (pathBeingIndexed # NoPath /\ pathBeingIndexed' = NoPath) => step'.name = "Done"]_vars

\* An Error notification has arrived during an indexing run: the indicator
\* shows the warning and status still reports p1 as being indexed.
C24_Witness ==
    /\ step = Step("Error", "none", "void", <<>>, <<>>, Text("warning", NoPercent))
    /\ pathBeingIndexed = "p1"
    /\ status = <<Group("p1", "indexing")>>

\* C25 (as stated): whenever the service is started, no controller operation
\* is in flight and a token is stored, the token last sent to the engine by
\* embeddings/set-token is the stored one.
C25_TokenConsistent ==
    (serviceStarted /\ calls = EmptyBag /\ accessToken # NoToken) => engineToken = accessToken

\* C26 (as stated): a Done that belongs to the engine's run on another path
\* than pathBeingIndexed neither clears pathBeingIndexed nor starts a reload.
C26_DoneAttribution ==
    [][\A p \in Paths :
          (Done(p) /\ pathBeingIndexed # NoPath /\ pathBeingIndexed # p)
              => /\ pathBeingIndexed' = pathBeingIndexed
                 /\ step'.sent = <<>>]_vars

\* The requests that search or build the index, or hand over the token
Gated == {"embeddings/load", "embeddings/index", "embeddings/query", "embeddings/set-token"}

\* C27 (as stated): while the endpoint is not dotcom no embeddings/load,
\* embeddings/index, embeddings/query or embeddings/set-token request is sent
\* and lastRepo and repoState do not change.
C27_DisabledIsSilent ==
    [][(~endpointIsDotcom /\ ~endpointIsDotcom')
          => /\ Methods(step'.sent) \cap Gated = {}
             /\ UNCHANGED <<lastRepo, repoState>>]_vars

\* C27 (amended): while the endpoint is not dotcom, a call of load(), index(),
\* query() or getContext() sends no request, leaves lastRepo and repoState
\* unchanged and starts no engine.
C27_DisabledCalls ==
    [][(~endpointIsDotcom /\ ( (\E p \in Paths \cup {NoPath} : Load(p)) \/ Index
                               \/ (\E op \in Queries : Query(op)) ))
          => /\ step'.sent = <<>>
             /\ step'.events = <<>>
             /\ UNCHANGED <<lastRepo, repoState, service, calls, pathBeingIndexed>>]_vars

\* load(p1) has returned false on a started service with nothing cached for
\* p1, the endpoint not being dotcom.
C27_Witness ==
    /\ ~endpointIsDotcom
    /\ serviceStarted
    /\ repoState["p1"] = NoState
    /\ step = Step("load", "p1", "false", <<>>, <<>>, NoText)

\* C28 (as stated): when a call load(p) has returned, with the endpoint dotcom
\* and the service started, lastRepo.path is p.
C28_StatusFollowsLoad ==
    (/\ step.name = "load"
     /\ step.ret \in {"true", "false"}
     /\ step.arg \in Paths
     /\ endpointIsDotcom
     /\ serviceStarted)
        => (lastRepo # NoRepo /\ lastRepo.path = step.arg)

\* C29: whenever lastRepo is set, repoState has an entry for lastRepo.path
\* (so status never takes its "no repoState" branch for it) and
\* lastRepo.loadResult equals that entry's hasIndex; every entry with
\* hasIndex = true has indexable = true and isGit = true.
C29_LastRepoConsistent ==
    /\ lastRepo # NoRepo
          => /\ lastRepo.path \in Paths
             /\ repoState[lastRepo.path].known
             /\ lastRepo.loadResult = repoState[lastRepo.path].hasIndex
    /\ \A p \in Paths :
          (repoState[p].known /\ repoState[p].hasIndex)
              => (repoState[p].indexable /\ repoState[p].isGit)

\* load(p2) has just loaded an index, after an earlier attempt for p1 found
\* none.
C29_Witness ==
    /\ step.name = "load"
    /\ step.arg = "p2"
    /\ step.ret = "true"
    /\ lastRepo = [path |-> "p2", loadResult |-> TRUE]
    /\ repoState["p2"] = RepoState(TRUE, TRUE, TRUE)
    /\ repoState["p1"].known
    /\ ~repoState["p1"].hasIndex

\* C30: in every reachable state a set pathBeingIndexed comes with a progress
\* indicator; every Done received while pathBeingIndexed is set clears it,
\* retires the indicator and fires status-changed; a notification received
\* while there is no indicator changes no field, fires no event, sends no
\* request and shows nothing.
C30_IndicatorWhileIndexing ==
    /\ [](pathBeingIndexed # NoPath => statusBar = Bar)
    /\ [][/\ \A p \in Paths :
                (Done(p) /\ pathBeingIndexed # NoPath)
                    => /\ pathBeingIndexed' = NoPath
                       /\ statusBar' = NoBar
                       /\ step'.events # <<>>
                       /\ step'.events[1] = Event("status", status')
          /\ (/\ statusBar = NoBar
              /\ \/ \E p \in Paths : Done(p)
                 \/ EngineError
                 \/ \E n \in ItemCounts : Progress(n[1], n[2])
                 \/ \E b \in Booleans : Unrecognized(b))
                => /\ UNCHANGED ctl
                   /\ step'.events = <<>>
                   /\ step'.sent = <<>>
                   /\ step'.shown = NoText]_vars

\* A Done has ended the indexing run of p1: the path and the indicator are
\* cleared and the subscribers have been told.
C30_Witness ==
    /\ step.name = "Done"
    /\ step.arg = "p1"
    /\ Kinds(step.events) = <<"status">>
    /\ pathBeingIndexed = NoPath
    /\ statusBar = NoBar
    /\ lastRepo.path = "p2"

\* C31 (as stated): the status a subscriber reads inside its callback when a
\* status-changed event is fired is the status after the step that fired it.
C31_EventAfterChange ==
    [][\A i \in DOMAIN step'.events :
          step'.events[i].ev = "status" => step'.events[i].seen = status']_vars

\* The reload of p after "Done" has been started and has not completed.
Reloading(p, bag) == \E c \in BagToSet(bag) : c.op = "reload" /\ c.arg = p

\* C32 (as stated): while p is being indexed, and then until the reload of p
\* that follows Done has completed, no status-changed event is fired at which
\* status is "unconsented" for p.
C32_NoConsentWhileIndexing ==
    [][\A p \in Paths :
          (pathBeingIndexed = p \/ (Reloading(p, calls) /\ Reloading(p, calls')))
              => \A i \in DOMAIN step'.events :
                    step'.events[i].ev = "status" => step'.events[i].seen # Unconsented(p)]_vars

\* C33 (as stated): once the engine has reported Done for its run on p, with
\* the endpoint dotcom and the service started, a call load(p) goes to the
\* engine (it is not short-circuited), unless the reload of p is under way.
C33_IndexedIsLoadable ==
    \A p \in Paths :
        (step.name = "Done" /\ step.arg = p /\ endpointIsDotcom /\ serviceStarted)
            => (~LoadShortCircuits(p) \/ Reloading(p, calls))

\* The telemetry ops of setLastStoredCode
Stored == {"copy", "insert", "save"}

\* C34 (as stated): storing a snippet sets insertInProgress exactly when the
\* event name does not contain "copy"; while the flag is set, the next call of
\* matchCodeInStore returns false, the next call of onTextDocumentChange
\* records no paste event, and either clears the flag; with the flag clear
\* both are evaluated normally; after a copy event the flag is clear; a paste
\* event is recorded only when the stored code matched the clipboard text and
\* the new document text.
C34_InsertSuppression ==
    [][/\ out'.logged \in Stored
            => (insertInProgress' <=> ~Includes(lastStoredCode'.eventName, CopyText))
       /\ \A t \in Texts, m \in Booleans, n \in Booleans :
             MatchCodeInStore(t, m, n)
                => IF insertInProgress
                   THEN ~insertInProgress' /\ out'.ret = "false"
                   ELSE ~insertInProgress' /\ out'.ret = Bool(m /\ n)
       /\ \A t \in Texts :
             (OnTextDocumentChange(t) /\ insertInProgress)
                => /\ ~insertInProgress'
                   /\ changes' = changes
                   /\ out'.logged = "none"
       /\ \A t \in Texts, b \in Booleans, s \in Sources :
             (HandleCopiedCode(t, b, s) /\ out'.logged \in Stored) => ~insertInProgress'
       /\ \A c \in BagToSet(changes), m \in Booleans, n \in Booleans :
             (ClipboardRead(c, m, n) /\ out'.logged # "none") => (m /\ n)]_vars

====
